---------------------------- MODULE Spec2Model ----------------------------
(***************************************************************************)
(* The folder-watch document consumer of paperless-ngx                     *)
(* (src/documents/management/commands/document_consumer.py): the per-file  *)
(* pipeline _consume with _is_ignored and _tags_from_path, and the         *)
(* scan / wait / events / sweep loop of Command.handle.                    *)
(*                                                                         *)
(* Names are sequences of one-character strings, paths are sequences of    *)
(* names.  Time is counted in ticks, TicksPerMs of them to a millisecond.  *)
(* The code reads a timestamp of notified_files only through the           *)
(* difference monotonic() - last_event_time, so the model keeps that       *)
(* difference (the age of the entry), saturated just above the debounce    *)
(* interval, instead of the two clock readings.                            *)
(***************************************************************************)
EXTENDS Integers, Sequences, FiniteSets, TLC

\* ------------------------------------------------------------------------
\* Bounds of the model
\* ------------------------------------------------------------------------

\* Largest configured CONSUMER_INOTIFY_DELAY, in ticks.
MaxDebounce == 2

\* Ticks per millisecond: a debounce interval of one tick is below 1 ms.
TicksPerMs == 2

\* Largest number of (change, path) pairs in one batch yielded by watch().
MaxBatch == 2

\* Largest number of ticks one call of _consume takes inside a sweep.
MaxConsumeDelay == 1

\* ------------------------------------------------------------------------
\* Program constants
\* ------------------------------------------------------------------------

\* _consume: os_error_retry_count
os_error_retry_count == 50

\* Command.testing_timeout_ms = int(0.5 * 1000)
testing_timeout_ms == 500

\* ------------------------------------------------------------------------
\* Names and paths
\* ------------------------------------------------------------------------

Min(a, b) == IF a < b THEN a ELSE b

Max(a, b) == IF a < b THEN b ELSE a

\* File and directory names of the modelled file system.
NameA == <<"a", ".", "p">>

NameB == <<"b", ".", "p">>

NameX == <<"d", ".", "x">>

NameInvUpper == <<"I">>

NameInvLower == <<"i">>

NameTmp == <<"t">>

\* settings.CONSUMPTION_DIR, and another existing directory that can be
\* given to the command as its "directory" argument.
CONSUMPTION_DIR == <<<<"c">>>>

OtherDir == <<<<"o">>>>

Directories == {CONSUMPTION_DIR, OtherDir}

\* The paths (relative to the watched directory) of the watch loop.
WatchPaths == {<<NameA>>, <<NameInvUpper, NameB>>}

\* The paths (relative to the watched directory) given to _consume directly.
GatePaths ==
    { <<NameA>>, <<NameX>>, <<NameInvUpper, NameB>>, <<NameInvLower, NameB>>,
      <<NameInvUpper, NameInvLower, NameB>>, <<NameTmp, NameA>>,
      <<NameTmp, NameTmp>> }

\* settings.CONSUMER_IGNORE_PATTERNS ("t/*" and "._*").
CONSUMER_IGNORE_PATTERNS == {<<"t", "/", "*">>, <<".", "_", "*">>}

\* The extensions documents.parsers.is_file_ext_supported accepts.
SupportedExts == {<<".", "p">>}

IsPrefix(s, t) == Len(s) <= Len(t) /\ SubSeq(t, 1, Len(s)) = s

\* PurePath.relative_to: the path below root, or ValueError.
RelativeTo(path, root) ==
    IF IsPrefix(root, path)
      THEN [ok |-> TRUE, parts |-> SubSeq(path, Len(root) + 1, Len(path))]
      ELSE [ok |-> FALSE, parts |-> <<>>]

\* str.lower / the iexact lookup, on the alphabet of the model.
LowerChar(c) == IF c = "I" THEN "i" ELSE c

Lower(name) == [k \in DOMAIN name |-> LowerChar(name[k])]

\* fnmatch.fnmatch on POSIX for patterns of literals, "*" and "?".
RECURSIVE Fnmatch(_, _)
Fnmatch(name, pat) ==
    IF pat = <<>> THEN name = <<>>
    ELSE IF Head(pat) = "*"
      THEN Fnmatch(name, Tail(pat))
           \/ (name # <<>> /\ Fnmatch(Tail(name), pat))
    ELSE IF Head(pat) = "?"
      THEN name # <<>> /\ Fnmatch(Tail(name), Tail(pat))
    ELSE name # <<>> /\ Head(name) = Head(pat)
         /\ Fnmatch(Tail(name), Tail(pat))

\* _is_ignored, lines 71-79: every part that differs from the final name
\* gets a trailing "/".
IgnoreParts(rel) ==
    [k \in DOMAIN rel |->
        IF rel[k] # rel[Len(rel)] THEN Append(rel[k], "/") ELSE rel[k]]

\* An _is_ignored that matches the patterns against the path as given.
IsIgnoredAbsolute(filepath) ==
    [raised |-> FALSE,
     ignored |-> \E pattern \in CONSUMER_IGNORE_PATTERNS :
                    \E k \in DOMAIN filepath :
                        Fnmatch(IgnoreParts(filepath)[k], pattern)]

\* _is_ignored: [raised, ignored].
IsIgnored(filepath) ==
    LET r == RelativeTo(filepath, CONSUMPTION_DIR)
        parts == IgnoreParts(r.parts)
    IN  IF ~r.ok THEN [raised |-> TRUE, ignored |-> FALSE]
        ELSE [raised |-> FALSE,
              ignored |-> \E pattern \in CONSUMER_IGNORE_PATTERNS :
                             \E k \in DOMAIN parts : Fnmatch(parts[k], pattern)]

\* os.path.splitext(filepath)[1]: from the last dot of the final name, unless
\* only dots precede it.
Splitext(name) ==
    LET dots == {k \in DOMAIN name : name[k] = "."}
        last == IF dots = {} THEN 0
                ELSE CHOOSE k \in dots : \A j \in dots : j <= k
    IN  IF last = 0 \/ (\A j \in 1..(last - 1) : name[j] = ".")
          THEN <<>>
          ELSE SubSeq(name, last, Len(name))

is_file_ext_supported(ext) == ext \in SupportedExts

\* ------------------------------------------------------------------------
\* The tag registry and _tags_from_path
\* ------------------------------------------------------------------------

\* A lookup by name=part, which tells "I" from "i".
TagLookupExact(reg, part) == {k \in DOMAIN reg : reg[k] = part}

\* The lookup of get_or_create(name__iexact=part, ...): the ids that match.
TagLookup(reg, part) == {k \in DOMAIN reg : Lower(reg[k]) = Lower(part)}

\* Tag.objects.get_or_create(name__iexact=part, defaults={"name": part}):
\* [exc, pk, reg]; more than one match raises MultipleObjectsReturned.
GetOrCreate(reg, part) ==
    LET found == TagLookup(reg, part)
    IN  IF Cardinality(found) = 1
          THEN [exc |-> FALSE, pk |-> CHOOSE k \in found : TRUE, reg |-> reg]
        ELSE IF found = {}
          THEN [exc |-> FALSE, pk |-> Len(reg) + 1, reg |-> Append(reg, part)]
        ELSE [exc |-> TRUE, pk |-> 0, reg |-> reg]

\* The for loop of _tags_from_path over path_parts from position k on;
\* db_fail = k + 1 makes the k-th registry call raise a database error.
RECURSIVE TagLoop(_, _, _, _, _)
TagLoop(path_parts, k, tag_ids, reg, db_fail) ==
    IF k > Len(path_parts) THEN [exc |-> FALSE, tag_ids |-> tag_ids, reg |-> reg]
    ELSE IF db_fail = k + 1 THEN [exc |-> TRUE, tag_ids |-> tag_ids, reg |-> reg]
    ELSE LET g == GetOrCreate(reg, path_parts[k])
         IN  IF g.exc THEN [exc |-> TRUE, tag_ids |-> tag_ids, reg |-> reg]
             ELSE TagLoop(path_parts, k + 1, tag_ids \cup {g.pk}, g.reg, db_fail)

\* A _tags_from_path without .parent: the file name gets a tag too.
TagsFromPathWithName(filepath, reg, db_fail) ==
    LET r == RelativeTo(filepath, CONSUMPTION_DIR)
    IN  IF db_fail = 1 \/ ~r.ok THEN [exc |-> TRUE, tag_ids |-> {}, reg |-> reg]
        ELSE TagLoop(r.parts, 1, {}, reg, db_fail)

\* _tags_from_path: [exc, tag_ids, reg]; list(tag_ids) is kept as the set of
\* its elements.  db_fail = 1 makes db.close_old_connections() raise.
TagsFromPath(filepath, reg, db_fail) ==
    LET r == RelativeTo(filepath, CONSUMPTION_DIR)
    IN  IF db_fail = 1 \/ ~r.ok THEN [exc |-> TRUE, tag_ids |-> {}, reg |-> reg]
        ELSE TagLoop(SubSeq(r.parts, 1, Len(r.parts) - 1), 1, {}, reg, db_fail)

\* ------------------------------------------------------------------------
\* _consume
\* ------------------------------------------------------------------------

\* The retry loop of _consume (lines 104-115).  The first `fails` calls of
\* open() raise OSError, the next one succeeds; opens counts the calls made.
RECURSIVE OpenLoop(_, _, _, _)
OpenLoop(read_try_count, file_open_ok, opens, fails) ==
    IF read_try_count < os_error_retry_count /\ ~file_open_ok
      THEN IF opens < fails
             THEN OpenLoop(read_try_count + 1, FALSE, opens + 1, fails)
             ELSE OpenLoop(read_try_count, TRUE, opens + 1, fails)
      ELSE [read_try_count |-> read_try_count, file_open_ok |-> file_open_ok,
            opens |-> opens]

\* The loop's result for every number of failing calls.
OpenResult == [fails \in 0..os_error_retry_count |-> OpenLoop(0, FALSE, 0, fails)]

\* A test of the budget that lets one more failure through.
RetryExhaustedLate(read_try_count) == read_try_count > os_error_retry_count

\* A test of the budget that gives up one attempt early.
RetryExhaustedEarly(read_try_count) ==
    read_try_count >= os_error_retry_count - 1

\* Line 117: the budget is used up.
RetryExhausted(read_try_count) == read_try_count >= os_error_retry_count

\* A tag derivation that hands on the ids found before the exception.
DeriveTagsPartial(subdirs, filepath, reg, db_fail) ==
    IF ~subdirs
      THEN [tag_exc |-> FALSE, tags_none |-> TRUE, tag_ids |-> {}, reg |-> reg,
            calls |-> 0]
      ELSE LET t == TagsFromPath(filepath, reg, db_fail)
           IN  [tag_exc |-> t.exc, tags_none |-> FALSE, tag_ids |-> t.tag_ids,
                reg |-> t.reg, calls |-> 1]

\* Lines 121-126: tag_ids stays None unless CONSUMER_SUBDIRS_AS_TAGS is set
\* and _tags_from_path returns; an exception is logged and swallowed.
DeriveTags(subdirs, filepath, reg, db_fail) ==
    IF ~subdirs
      THEN [tag_exc |-> FALSE, tags_none |-> TRUE, tag_ids |-> {}, reg |-> reg,
            calls |-> 0]
      ELSE LET t == TagsFromPath(filepath, reg, db_fail)
           IN  [tag_exc |-> t.exc, tags_none |-> t.exc,
                tag_ids |-> IF t.exc THEN {} ELSE t.tag_ids, reg |-> t.reg,
                calls |-> 1]

\* A submission without the try block: what delay() raises leaves _consume.
SubmitUncaught(sink_fail) ==
    [submits |-> 1, sink_exc |-> sink_fail, raised |-> sink_fail, errors |-> 0]

\* Lines 128-141: consume_file.delay is called once; what it raises is
\* logged and swallowed.
Submit(sink_fail) ==
    [submits |-> 1, sink_exc |-> sink_fail, raised |-> FALSE,
     errors |-> IF sink_fail THEN 1 ELSE 0]

\* A rejection that logs nothing.
RejectedSilent(reg, raised, warnings, debugs) ==
    [raised |-> raised, warnings |-> 0, debugs |-> 0, errors |-> 0,
     opens |-> 0, submits |-> 0, sink_exc |-> FALSE, tag_exc |-> FALSE,
     tag_calls |-> 0, tags_none |-> TRUE, tag_ids |-> {}, reg |-> reg]

\* What a call of _consume that stops before the retry loop reports.
Rejected(reg, raised, warnings, debugs) ==
    [raised |-> raised, warnings |-> warnings, debugs |-> debugs, errors |-> 0,
     opens |-> 0, submits |-> 0, sink_exc |-> FALSE, tag_exc |-> FALSE,
     tag_calls |-> 0, tags_none |-> TRUE, tag_ids |-> {}, reg |-> reg]

\* _consume with the retry loop before the test of the extension.
ConsumeOpensFirst(filepath, kind, subdirs, fails, db_fail, sink_fail, reg) ==
    IF kind = "dir" THEN Rejected(reg, FALSE, 0, 0)
    ELSE IF IsIgnored(filepath).raised THEN Rejected(reg, TRUE, 0, 0)
    ELSE IF IsIgnored(filepath).ignored THEN Rejected(reg, FALSE, 0, 0)
    ELSE IF kind # "file" THEN Rejected(reg, FALSE, 0, 1)
    ELSE IF RetryExhausted(OpenResult[fails].read_try_count)
      THEN [Rejected(reg, FALSE, 1, 0) EXCEPT !.opens = OpenResult[fails].opens]
    ELSE IF ~is_file_ext_supported(Splitext(filepath[Len(filepath)]))
      THEN [Rejected(reg, FALSE, 1, 0) EXCEPT !.opens = OpenResult[fails].opens]
    ELSE LET t == DeriveTags(subdirs, filepath, reg, db_fail)
             s == Submit(sink_fail)
         IN  [raised |-> s.raised, warnings |-> 0, debugs |-> 0,
              errors |-> s.errors + (IF t.tag_exc THEN 1 ELSE 0),
              opens |-> OpenResult[fails].opens, submits |-> s.submits,
              sink_exc |-> s.sink_exc, tag_exc |-> t.tag_exc,
              tag_calls |-> t.calls, tags_none |-> t.tags_none,
              tag_ids |-> t.tag_ids, reg |-> t.reg]

\* _consume without lines 89-90: directories and ignored paths go on to the
\* checks that follow.
ConsumeNoSkip(filepath, kind, subdirs, fails, db_fail, sink_fail, reg) ==
    IF IsIgnored(filepath).raised THEN Rejected(reg, TRUE, 0, 0)
    ELSE IF kind # "file" THEN Rejected(reg, FALSE, 0, 1)
    ELSE IF ~is_file_ext_supported(Splitext(filepath[Len(filepath)]))
      THEN Rejected(reg, FALSE, 1, 0)
    ELSE IF RetryExhausted(OpenResult[fails].read_try_count)
      THEN [Rejected(reg, FALSE, 1, 0) EXCEPT !.opens = OpenResult[fails].opens]
    ELSE LET t == DeriveTags(subdirs, filepath, reg, db_fail)
             s == Submit(sink_fail)
         IN  [raised |-> s.raised, warnings |-> 0, debugs |-> 0,
              errors |-> s.errors + (IF t.tag_exc THEN 1 ELSE 0),
              opens |-> OpenResult[fails].opens, submits |-> s.submits,
              sink_exc |-> s.sink_exc, tag_exc |-> t.tag_exc,
              tag_calls |-> t.calls, tags_none |-> t.tags_none,
              tag_ids |-> t.tag_ids, reg |-> t.reg]

\* _consume(filepath), with kind the state of filepath on disk ("none",
\* "file" or "dir"), fails the number of failing open() calls, db_fail the
\* database call that fails (0: none) and sink_fail whether delay() raises.
Consume(filepath, kind, subdirs, fails, db_fail, sink_fail, reg) ==
    IF kind = "dir" THEN Rejected(reg, FALSE, 0, 0)
    ELSE LET ign == IsIgnored(filepath)
         IN
    IF ign.raised THEN Rejected(reg, TRUE, 0, 0)
    ELSE IF ign.ignored THEN Rejected(reg, FALSE, 0, 0)
    ELSE IF kind # "file" THEN Rejected(reg, FALSE, 0, 1)
    ELSE IF ~is_file_ext_supported(Splitext(filepath[Len(filepath)]))
      THEN Rejected(reg, FALSE, 1, 0)
    ELSE LET o == OpenResult[fails]
         IN
    IF RetryExhausted(o.read_try_count)
      THEN [Rejected(reg, FALSE, 1, 0) EXCEPT !.opens = o.opens]
    ELSE LET t == DeriveTags(subdirs, filepath, reg, db_fail)
             s == Submit(sink_fail)
         IN  [raised |-> s.raised, warnings |-> 0, debugs |-> 0,
              errors |-> s.errors + (IF t.tag_exc THEN 1 ELSE 0),
              opens |-> o.opens, submits |-> s.submits, sink_exc |-> s.sink_exc,
              tag_exc |-> t.tag_exc, tag_calls |-> t.calls,
              tags_none |-> t.tags_none, tag_ids |-> t.tag_ids, reg |-> t.reg]

\* ------------------------------------------------------------------------
\* State
\* ------------------------------------------------------------------------

VARIABLES
    directory,          \* options["directory"], resolved
    dir_status,         \* what is at that path: "dir", "file" or "none"
    is_recursive,       \* settings.CONSUMER_RECURSIVE
    is_oneshot,         \* options["oneshot"]
    is_testing,         \* options["testing"]
    subdirs_as_tags,    \* settings.CONSUMER_SUBDIRS_AS_TAGS
    inotify_debounce,   \* settings.CONSUMER_INOTIFY_DELAY, in ticks
    fs,                 \* the watched directory: path -> "none", "file", "dir"
    stop_flag,          \* Command.stop_flag
    tags,               \* the Tag table: tags[pk] is the name of tag pk
    pc,                 \* where handle() is
    scan_rem,           \* paths the start-up glob has still to yield
    read_timeout_ms,    \* rust_timeout of the next watch()
    notified_files,     \* the dict, in insertion order: <<[path, age], ...>>
    checks,             \* history: the _consume calls made by the last step
    tracked,            \* history: the path whose history hist keeps
    hist,               \* history of tracked since its last add/modify event
    stop_observed       \* history: the loop has seen stop_flag set

\* The state of paperless/staticfiles.py, which the consumer never touches.
VARIABLES
    paths,              \* post_process(paths): the collected paths
    disk,               \* the static root: file contents, .br/.gz files
    storage,            \* self: hash_to_files, path_to_file_info, linked_files
    post_pc,            \* where post_process is
    processed_files     \* what post_process returns

static_vars == << paths, disk, storage, post_pc, processed_files >>

vars ==
    << directory, dir_status, is_recursive, is_oneshot, is_testing,
       subdirs_as_tags, inotify_debounce, fs, stop_flag, tags, pc, scan_rem,
       read_timeout_ms, notified_files, checks, tracked, hist, stop_observed,
       static_vars >>

\* What no step of the consumer changes: its options and settings, and the
\* static files.
config ==
    << directory, dir_status, is_recursive, is_oneshot, is_testing,
       subdirs_as_tags, inotify_debounce, tracked, static_vars >>

Kinds == {"none", "file", "dir"}

Changes == {"added", "modified", "deleted"}

\* The numbers of leading open() failures tried by the scan and the sweeps.
LoopFails == {0, os_error_retry_count}

\* History of the tracked path: ticks since its last add/modify event (-1:
\* none yet) and, since that event (or the start), whether the loop handed
\* it to _consume, whether it was submitted, whether a delete event came;
\* coalesced: that event came less than the debounce interval after the
\* add/modify event before it, with no delete event and no hand-off between
\* the two and none since; split: some such event came although the
\* path had been handed off between the two.
NoHist ==
    [ev_age |-> -1, handed |-> FALSE, submitted |-> FALSE, deleted |-> FALSE,
     coalesced |-> FALSE, split |-> FALSE]

\* The absolute path of a path of the watched directory.
Abs(p) == directory \o p

\* Ages saturate one tick above the debounce interval.
Cap == inotify_debounce + 1

\* Line 220: int(inotify_debounce_secs * 1000).
inotify_debounce_ms == inotify_debounce \div TicksPerMs

\* The paths watch() and glob() report: all of them, or the top level only.
Reported == {p \in WatchPaths : is_recursive \/ Len(p) = 1}

Events == [change : Changes, path : Reported]

\* The batches watch() yields: up to MaxBatch changes of one path.  (A batch
\* with changes of several paths leaves the map as the batches of its paths
\* do when they come one after the other with no time between them: every
\* entry such a batch adds or refreshes is too young for the sweeps between.)
Batches ==
    UNION { {b \in SUBSET {e \in Events : e.path = p} :
                b # {} /\ Cardinality(b) <= MaxBatch} :
            p \in Reported }

\* The database calls of _tags_from_path that may be made to fail for p.
DbFails(p) == IF subdirs_as_tags THEN 0..Len(p) ELSE {0}

\* dt ticks later: every age grows, up to Cap.
Aged(d, dt) == [k \in DOMAIN d |-> [d[k] EXCEPT !.age = Min(@ + dt, Cap)]]

AgedHist(h, dt) ==
    IF h.ev_age < 0 THEN h ELSE [h EXCEPT !.ev_age = Min(@ + dt, Cap)]

\* notified_files.setdefault(path, monotonic()): a present key keeps its
\* timestamp.
DictSetDefault(d, path) ==
    IF \E k \in DOMAIN d : d[k].path = path
      THEN d
      ELSE Append(d, [path |-> path, age |-> 0])

\* A delete event that leaves the dict as it is.
DictPopNothing(d, path) == d

\* notified_files[path] = monotonic(): a new key is appended, a present one
\* keeps its place.
DictSet(d, path) ==
    IF \E k \in DOMAIN d : d[k].path = path
      THEN [k \in DOMAIN d |-> IF d[k].path = path THEN [d[k] EXCEPT !.age = 0]
                                ELSE d[k]]
      ELSE Append(d, [path |-> path, age |-> 0])

\* notified_files.pop(path, None)
DictPop(d, path) == SelectSeq(d, LAMBDA it : it.path # path)

InDict(d, path) == \E k \in DOMAIN d : d[k].path = path

\* The record kept of one call of _consume: who called, the path, what was
\* on disk, the failing open() calls, the result, and the history of the
\* path at the call (NoHist for a path that is not the tracked one).
Check(via, p, kind, fails, r, h) ==
    [via |-> via, path |-> p, kind |-> kind, fails |-> fails, res |-> r,
     before |-> IF p = tracked THEN h ELSE NoHist]

\* The history of the tracked path after a call of _consume on p.
HistCall(h, via, p, r) ==
    IF p # tracked THEN h
    ELSE [h EXCEPT !.handed = @ \/ via = "sweep",
                   !.submitted = @ \/ r.submits > 0,
                   !.coalesced = @ /\ via # "sweep"]

\* The static paths of the model: a.j, bb.j and c.g.
StaticPaths == {<<"a", ".", "j">>, <<"b", "b", ".", "j">>, <<"c", ".", "g">>}

\* The contents a file can have: a small one and a large one.
Contents == {"s", "l"}

\* What can be at a static path: nothing, a directory, or a file.
DiskKinds == Contents \cup {"none", "dir"}

\* The suffixes of the compressed variants.
Variants == {".br", ".gz"}

\* _get_file_hash_fast (lines 151-161): the digest of a content; different
\* contents have different digests.
Sha256(c) == <<"sha256", c>>

Checksums == {Sha256(c) : c \in Contents}

\* __init__ (lines 60-73): the maps and the set are empty.  A key of
\* hash_to_files that was never used holds the empty list.
NewStorage ==
    [hash_to_files |-> [h \in Checksums |-> <<>>],
     path_to_file_info |-> <<>>,
     linked_files |-> {}]

\* No post_process is under way.
StaticIdle ==
    /\ paths = <<>>
    /\ disk = [file |-> [p \in StaticPaths |-> "none"], variant |-> {}]
    /\ storage = NewStorage
    /\ post_pc = "idle"
    /\ processed_files = <<>>

Init ==
    /\ StaticIdle
    /\ directory \in Directories
    /\ dir_status \in Kinds
    /\ is_recursive \in BOOLEAN
    /\ is_oneshot \in BOOLEAN
    /\ is_testing \in BOOLEAN
    /\ subdirs_as_tags \in BOOLEAN
    /\ inotify_debounce \in 0..MaxDebounce
    /\ fs \in [WatchPaths -> Kinds]
    /\ stop_flag = FALSE
    /\ tags = <<>>
    /\ pc = "start"
    /\ scan_rem = {}
    /\ read_timeout_ms = 0
    /\ notified_files = <<>>
    /\ checks = <<>>
    /\ tracked \in {p \in WatchPaths : is_recursive \/ Len(p) = 1}
    /\ hist = NoHist
    /\ stop_observed = FALSE

\* ------------------------------------------------------------------------
\* Command.handle
\* ------------------------------------------------------------------------

Running == {"scan", "wait", "sweep"}

\* while True
LoopTopForever == "wait"

\* Line 225: while not self.stop_flag.is_set()
LoopTop == IF stop_flag THEN "done" ELSE "wait"

\* A start without the checks of lines 182-189.
HandleStartUnchecked ==
    /\ pc = "start"
    /\ pc' = "scan"
    /\ scan_rem' = {p \in Reported : fs[p] # "none"}
    /\ checks' = <<>>
    /\ UNCHANGED << config, fs, stop_flag, tags, read_timeout_ms, notified_files,
                    hist, stop_observed >>

\* Lines 177-195: the directory is validated; glob() lists what is there.
HandleStart ==
    /\ pc = "start"
    /\ IF dir_status # "dir"
         THEN pc' = "error" /\ scan_rem' = scan_rem
         ELSE pc' = "scan" /\ scan_rem' = {p \in Reported : fs[p] # "none"}
    /\ checks' = <<>>
    /\ UNCHANGED << config, fs, stop_flag, tags, read_timeout_ms, notified_files,
                    hist, stop_observed >>

\* Lines 197-198: _consume on the next path of the glob.
ScanStep ==
    /\ pc = "scan"
    /\ \E p \in scan_rem, fails \in LoopFails, sink_fail \in BOOLEAN :
         \E db_fail \in DbFails(p) :
           \E r \in {Consume(Abs(p), fs[p], subdirs_as_tags, fails, db_fail,
                              sink_fail, tags)} :
               /\ checks' = <<Check("scan", p, fs[p], fails, r, hist)>>
               /\ tags' = r.reg
               /\ scan_rem' = scan_rem \ {p}
               /\ hist' = HistCall(hist, "scan", p, r)
               /\ pc' = IF r.raised THEN "crashed" ELSE "scan"
    /\ UNCHANGED << config, fs, stop_flag, read_timeout_ms, notified_files,
                    stop_observed >>

\* Lines 200-225: one-shot returns; otherwise the first timeout is set and
\* the loop is entered.
ScanEnd ==
    /\ pc = "scan"
    /\ scan_rem = {}
    /\ IF is_oneshot
         THEN /\ pc' = "done"
              /\ UNCHANGED << read_timeout_ms, stop_observed >>
         ELSE /\ pc' = LoopTop
              /\ read_timeout_ms' = IF is_testing THEN testing_timeout_ms ELSE 0
              /\ stop_observed' = stop_flag
    /\ notified_files' = <<>>
    /\ checks' = <<>>
    /\ UNCHANGED << config, fs, stop_flag, tags, scan_rem, hist >>

\* Lines 281-289.
NextTimeout(d) ==
    IF Len(d) > 0 THEN inotify_debounce_ms
    ELSE IF is_testing THEN testing_timeout_ms
    ELSE 0

\* The ticks a wait may take before it yields events: at most the timeout.
EventDelays ==
    IF read_timeout_ms = 0 THEN 0..Cap
    ELSE 0..Min(read_timeout_ms * TicksPerMs, Cap)

\* The ticks a wait takes when it times out: the timeout or more.
TimeoutDelays == Min(read_timeout_ms * TicksPerMs, Cap)..Cap

\* Lines 227-236 and 281-290: watch() returns without yielding when
\* stop_event is set; the timeout is set again and the while loop ends.
WaitStop ==
    /\ pc = "wait"
    /\ stop_flag
    /\ read_timeout_ms' = NextTimeout(notified_files)
    /\ pc' = LoopTop
    /\ stop_observed' = TRUE
    /\ checks' = <<>>
    /\ UNCHANGED << config, fs, stop_flag, tags, scan_rem, notified_files,
                    hist >>

\* Lines 246 and 248, on the pending map.
ApplyEvent(d, e) ==
    IF e.change = "deleted" THEN DictPop(d, e.path) ELSE DictSet(d, e.path)

\* Lines 237-248: the for loop over the batch, in the order the set yields.
RECURSIVE ApplyBatch(_, _)
ApplyBatch(d, order) ==
    IF order = <<>> THEN d
    ELSE ApplyBatch(ApplyEvent(d, Head(order)), Tail(order))

\* The history of the tracked path after event e.
HistEvent(h, e) ==
    IF e.path # tracked THEN h
    ELSE IF e.change = "deleted"
      THEN [h EXCEPT !.deleted = TRUE, !.coalesced = FALSE]
    ELSE LET close == h.ev_age >= 0 /\ h.ev_age < inotify_debounce
         IN  [NoHist EXCEPT !.ev_age = 0,
                            !.coalesced = close /\ ~h.deleted /\ ~h.handed,
                            !.split = h.split \/ (close /\ h.handed)]

RECURSIVE HistBatch(_, _)
HistBatch(h, order) ==
    IF order = <<>> THEN h
    ELSE HistBatch(HistEvent(h, Head(order)), Tail(order))

\* The orders in which a batch can be iterated.
Orders(b) ==
    {o \in [1..Cardinality(b) -> b] : \A i, j \in DOMAIN o : i # j => o[i] # o[j]}

\* Lines 237-248 for every batch watch() can yield, every delay dt and every
\* order of iteration: the pending map and the history that result.
BatchOutcomes ==
    UNION { LET orders == Orders(b)
            IN  UNION { LET d == Aged(notified_files, dt)
                            h == AgedHist(hist, dt)
                        IN  { << ApplyBatch(d, order), HistBatch(h, order) >> :
                              order \in orders } :
                        dt \in EventDelays } :
            b \in Batches }

\* Lines 227-248: watch() yields a batch of changes after dt ticks and every
\* change is applied to notified_files.
WaitEvents ==
    /\ pc = "wait"
    /\ ~stop_flag
    /\ \E r \in BatchOutcomes :
         /\ notified_files' = r[1]
         /\ hist' = r[2]
    /\ pc' = "sweep"
    /\ checks' = <<>>
    /\ UNCHANGED << config, fs, stop_flag, tags, scan_rem, read_timeout_ms,
                    stop_observed >>

\* A watch() that does not yield on a timeout: the wait goes on.
WaitTimeoutNoYield ==
    /\ pc = "wait"
    /\ ~stop_flag
    /\ read_timeout_ms > 0
    /\ \E dt \in TimeoutDelays :
         /\ notified_files' = Aged(notified_files, dt)
         /\ hist' = AgedHist(hist, dt)
    /\ pc' = "wait"
    /\ checks' = <<>>
    /\ UNCHANGED << config, fs, stop_flag, tags, scan_rem, read_timeout_ms,
                    stop_observed >>

\* Lines 227-236: rust_timeout elapses and watch() yields an empty set.
WaitTimeout ==
    /\ pc = "wait"
    /\ ~stop_flag
    /\ read_timeout_ms > 0
    /\ \E dt \in TimeoutDelays :
         /\ notified_files' = Aged(notified_files, dt)
         /\ hist' = AgedHist(hist, dt)
    /\ pc' = "sweep"
    /\ checks' = <<>>
    /\ UNCHANGED << config, fs, stop_flag, tags, scan_rem, read_timeout_ms,
                    stop_observed >>

\* A test of the age with >= in place of >.
WaitedAtExpiry(item, el) == Min(item.age + el, Cap) >= inotify_debounce

\* Lines 257-259, el ticks into the sweep.
WaitedLongEnough(item, el) == Min(item.age + el, Cap) > inotify_debounce

\* Line 263.
FileStillExists(item) == fs[item.path] = "file"

\* A sweep that keeps no item it does not consume.
KeepDropped(sw, item) == sw

\* Lines 269-273: what becomes of still_waiting when the item is not
\* consumed.
Keep(sw, item) == IF FileStillExists(item) THEN Append(sw, item) ELSE sw

\* The state of a sweep: the dict bound to notified_files, still_waiting,
\* the Tag table, the history, the _consume calls made, whether one of them
\* raised, and the ticks gone by since the sweep began.
SweepStart ==
    [notified_files |-> notified_files, still_waiting |-> <<>>, reg |-> tags,
     hist |-> hist, checks |-> <<>>, raised |-> FALSE, elapsed |-> 0]

\* A sweep that puts a consumed item back into still_waiting.
HandOffKeeps(a, p, in, r) ==
    LET h == AgedHist(a.hist, a.elapsed)
        sw == Append(a.still_waiting, [path |-> p, age |-> Cap])
    IN  [notified_files |-> IF r.raised THEN a.notified_files ELSE sw,
         still_waiting |-> sw,
         reg |-> r.reg,
         hist |-> [HistCall(h, "sweep", p, r) EXCEPT !.ev_age = a.hist.ev_age],
         checks |-> Append(a.checks, Check("sweep", p, fs[p], in.fails, r, h)),
         raised |-> r.raised,
         elapsed |-> Min(a.elapsed + in.delay, Cap)]

\* A sweep that keeps an item whose submission failed, to try it again.
HandOffRetries(a, p, in, r) ==
    LET h == AgedHist(a.hist, a.elapsed)
        sw == IF r.sink_exc
                THEN Append(a.still_waiting, [path |-> p, age |-> Cap])
                ELSE a.still_waiting
    IN  [notified_files |-> IF r.raised THEN a.notified_files ELSE sw,
         still_waiting |-> sw,
         reg |-> r.reg,
         hist |-> [HistCall(h, "sweep", p, r) EXCEPT !.ev_age = a.hist.ev_age],
         checks |-> Append(a.checks, Check("sweep", p, fs[p], in.fails, r, h)),
         raised |-> r.raised,
         elapsed |-> Min(a.elapsed + in.delay, Cap)]

\* Lines 269-276 for an item that is consumed: _consume returned (or
\* raised) r and took in.delay ticks.
HandOff(a, p, in, r) ==
    LET h == AgedHist(a.hist, a.elapsed)
    IN  [notified_files |->
             IF r.raised THEN a.notified_files ELSE a.still_waiting,
         still_waiting |-> a.still_waiting,
         reg |-> r.reg,
         hist |-> [HistCall(h, "sweep", p, r) EXCEPT !.ev_age = a.hist.ev_age],
         checks |-> Append(a.checks, Check("sweep", p, fs[p], in.fails, r, h)),
         raised |-> r.raised,
         elapsed |-> Min(a.elapsed + in.delay, Cap)]

\* Lines 255-276 for one item: the sweep states it can lead to.
SweepItem(item, a) ==
    LET p == item.path
    IN  IF WaitedLongEnough(item, a.elapsed) /\ FileStillExists(item)
          THEN UNION { { HandOff(a, p, in, r) :
                           r \in {Consume(Abs(p), fs[p], subdirs_as_tags,
                                          in.fails, in.db_fail, in.sink_fail,
                                          a.reg)} } :
                       in \in [fails : LoopFails, sink_fail : BOOLEAN,
                               db_fail : DbFails(p),
                               delay : 0..MaxConsumeDelay] }
          ELSE { [a EXCEPT !.still_waiting = Keep(@, item),
                           !.notified_files = Keep(a.still_waiting, item)] }

\* The for loop of the sweep over the items of the dict it started on; an
\* exception that leaves _consume ends it.
RECURSIVE SweepFrom(_, _)
SweepFrom(items, a) ==
    IF items = <<>> \/ a.raised THEN {a}
    ELSE UNION { SweepFrom(Tail(items), b) : b \in SweepItem(Head(items), a) }

\* Lines 250-290 and 225: the readiness sweep, the new timeout, and the
\* test of the while loop.
Sweep ==
    /\ pc = "sweep"
    /\ \E a \in SweepFrom(notified_files, SweepStart) :
         /\ notified_files' = Aged(a.notified_files, a.elapsed)
         /\ hist' = AgedHist(a.hist, a.elapsed)
         /\ tags' = a.reg
         /\ checks' = a.checks
         /\ IF a.raised
              THEN /\ pc' = "crashed"
                   /\ UNCHANGED << read_timeout_ms, stop_observed >>
              ELSE /\ pc' = LoopTop
                   /\ read_timeout_ms' = NextTimeout(a.notified_files)
                   /\ stop_observed' = stop_flag
    /\ UNCHANGED << config, fs, stop_flag, scan_rem >>

\* A loop without the try: KeyboardInterrupt leaves handle() wherever it is
\* raised.
InterruptUncaught ==
    /\ pc \in Running
    /\ pc' = "interrupted"
    /\ checks' = <<>>
    /\ UNCHANGED << config, fs, stop_flag, tags, scan_rem, read_timeout_ms,
                    notified_files, hist, stop_observed >>

\* KeyboardInterrupt is raised.  Inside the try of lines 226-290 it is on its
\* way to the except clause; during the start-up scan nothing catches it.
Interrupt ==
    /\ pc \in Running
    /\ pc' = IF pc \in {"wait", "sweep"} THEN "except" ELSE "interrupted"
    /\ checks' = <<>>
    /\ UNCHANGED << config, fs, stop_flag, tags, scan_rem, read_timeout_ms,
                    notified_files, hist, stop_observed >>

\* Lines 291-292 and 225: the except clause sets the flag and the test of
\* the while loop, which finds it set, ends the loop.
Except ==
    /\ pc = "except"
    /\ stop_flag' = TRUE
    /\ stop_observed' = TRUE
    /\ pc' = "done"
    /\ checks' = <<>>
    /\ UNCHANGED << config, fs, tags, scan_rem, read_timeout_ms, notified_files,
                    hist >>

\* ------------------------------------------------------------------------
\* The environment
\* ------------------------------------------------------------------------

\* A path is created, removed or replaced on disk.
FsChange ==
    /\ pc \in Running
    /\ \E p \in WatchPaths, k \in Kinds :
         /\ k # fs[p]
         /\ fs' = [fs EXCEPT ![p] = k]
    /\ checks' = <<>>
    /\ UNCHANGED << config, stop_flag, tags, pc, scan_rem, read_timeout_ms,
                    notified_files, hist, stop_observed >>

\* Another thread sets Command.stop_flag.
SetStop ==
    /\ pc \in Running
    /\ ~stop_flag
    /\ stop_flag' = TRUE
    /\ checks' = <<>>
    /\ UNCHANGED << config, fs, tags, pc, scan_rem, read_timeout_ms,
                    notified_files, hist, stop_observed >>

\* The steps of handle() itself.
Program ==
    \/ HandleStart
    \/ ScanStep
    \/ ScanEnd
    \/ WaitStop
    \/ WaitEvents
    \/ WaitTimeout
    \/ Sweep
    \/ Except

\* The steps handle() takes whatever happens in the watched directory: all
\* of them but the arrival of a batch of changes.
Own ==
    \/ HandleStart
    \/ ScanStep
    \/ ScanEnd
    \/ WaitStop
    \/ WaitTimeout
    \/ Sweep
    \/ Except

Next ==
    \/ Program
    \/ Interrupt
    \/ FsChange
    \/ SetStop

Spec == Init /\ [][Next]_vars

\* ------------------------------------------------------------------------
\* _consume on its own: calls on arbitrary paths of the watched directory,
\* one after the other, against the Tag table the earlier calls left
\* ------------------------------------------------------------------------

GateInit ==
    /\ StaticIdle
    /\ directory \in Directories
    /\ dir_status = "dir"
    /\ is_recursive = TRUE
    /\ is_oneshot = FALSE
    /\ is_testing = FALSE
    /\ subdirs_as_tags \in BOOLEAN
    /\ inotify_debounce = 0
    /\ fs = [p \in WatchPaths |-> "none"]
    /\ stop_flag = FALSE
    /\ tags = <<>>
    /\ pc = "gate"
    /\ scan_rem = {}
    /\ read_timeout_ms = 0
    /\ notified_files = <<>>
    /\ checks = <<>>
    /\ tracked = <<NameA>>
    /\ hist = NoHist
    /\ stop_observed = FALSE

\* One call of _consume on p, with open() failing fails times first.
Call(p, kind, fails, db_fail, sink_fail, after) ==
    \E r \in {Consume(Abs(p), kind, subdirs_as_tags, fails, db_fail, sink_fail,
                       tags)} :
        /\ checks' = <<Check("call", p, kind, fails, r, NoHist)>>
        /\ tags' = r.reg
        /\ pc' = IF r.raised THEN "crashed" ELSE after
        /\ UNCHANGED << config, fs, stop_flag, scan_rem, read_timeout_ms,
                        notified_files, hist, stop_observed >>

\* A call whose open() works at once or never; more calls follow.
GateCall ==
    /\ pc = "gate"
    /\ \E p \in GatePaths, kind \in Kinds, fails \in LoopFails,
          sink_fail \in BOOLEAN :
         \E db_fail \in DbFails(p) :
           Call(p, kind, fails, db_fail, sink_fail, "gate")

\* A call on a file for every number of failing open() calls; it is the
\* last one followed.
GateRetry ==
    /\ pc = "gate"
    /\ \E p \in GatePaths, fails \in 0..os_error_retry_count,
          sink_fail \in BOOLEAN :
         \E db_fail \in DbFails(p) :
           Call(p, "file", fails, db_fail, sink_fail, "gate_end")

GateNext ==
    \/ GateCall
    \/ GateRetry

GateSpec == GateInit /\ [][GateNext]_vars

\* The same program under the scheduling the interpreter gives it: handle()
\* goes on taking the steps that are its own while it can take one; no
\* change in the watched directory is bound to come.  The configurations
\* are those of a recursive watch without tags, with a debounce of at most
\* one tick.
FairInit ==
    /\ Init
    /\ tracked = <<NameA>>
    /\ inotify_debounce <= 1
    /\ is_recursive
    /\ ~subdirs_as_tags

FairSpec == FairInit /\ [][Next]_vars /\ WF_vars(Own)

\* ------------------------------------------------------------------------
\* paperless/staticfiles.py: post_process of
\* DeduplicatedCompressedStaticFilesStorage
\* ------------------------------------------------------------------------

\* MIN_COMPRESS_SIZE, in bytes.
MIN_COMPRESS_SIZE == 1024

\* COMPRESSIBLE_EXTENSIONS, on the alphabet of the model: ".j".
COMPRESSIBLE_EXTENSIONS == {<<".", "j">>}

\* st_size of a file with content c.
Size(c) == IF c = "s" THEN 1000 ELSE 2000

\* The variables of the consumer.
consumer_vars ==
    << directory, dir_status, is_recursive, is_oneshot, is_testing,
       subdirs_as_tags, inotify_debounce, fs, stop_flag, tags, pc, scan_rem,
       read_timeout_ms, notified_files, checks, tracked, hist, stop_observed >>

\* The consumer is not running.
ConsumerIdle ==
    /\ directory = CONSUMPTION_DIR
    /\ dir_status = "dir"
    /\ is_recursive = TRUE
    /\ is_oneshot = FALSE
    /\ is_testing = FALSE
    /\ subdirs_as_tags = FALSE
    /\ inotify_debounce = 0
    /\ fs = [p \in WatchPaths |-> "none"]
    /\ stop_flag = FALSE
    /\ tags = <<>>
    /\ pc = "idle"
    /\ scan_rem = {}
    /\ read_timeout_ms = 0
    /\ notified_files = <<>>
    /\ checks = <<>>
    /\ tracked = <<NameA>>
    /\ hist = NoHist
    /\ stop_observed = FALSE

\* The lists of collected paths: every list of different static paths.
PathLists ==
    UNION { {l \in [1..n -> StaticPaths] :
                \A i, j \in 1..n : i # j => l[i] # l[j]} :
            n \in 0..Cardinality(StaticPaths) }

\* post_process(paths) is called on a new storage, with anything on disk.
StaticInit ==
    /\ ConsumerIdle
    /\ paths \in PathLists
    /\ disk \in [file : [StaticPaths -> DiskKinds], variant : {{}}]
    /\ storage = NewStorage
    /\ post_pc = "hash"
    /\ processed_files = <<>>

\* hash_file (lines 116-128): (None, None, None) for what is no regular
\* file, (path, None, None) when reading fails, the digest and the size
\* otherwise.  None is <<>> for a path or a digest and -1 for a size.
HashFile(path, io_fail) ==
    IF disk.file[path] \notin Contents
      THEN [path |-> <<>>, file_hash |-> <<>>, file_size |-> -1]
    ELSE IF io_fail
      THEN [path |-> path, file_hash |-> <<>>, file_size |-> -1]
    ELSE [path |-> path, file_hash |-> Sha256(disk.file[path]),
          file_size |-> Size(disk.file[path])]

\* Lines 136-146: the result of one future is recorded, unless a part of it
\* is None.
RecordHash(st, r) ==
    IF r.path # <<>> /\ r.file_hash # <<>> /\ r.file_size # -1
      THEN LET file_info == [file_path_str |-> r.path, checksum |-> r.file_hash,
                             original_size |-> r.file_size]
           IN  [st EXCEPT
                  !.hash_to_files[r.file_hash] = Append(@, file_info),
                  !.path_to_file_info = (r.path :> file_info) @@ @]
      ELSE st

\* Lines 135-146: the futures in the order in which they complete.
RECURSIVE BuildFrom(_, _)
BuildFrom(results, st) ==
    IF results = <<>> THEN st
    ELSE BuildFrom(Tail(results), RecordHash(st, Head(results)))

\* The orders in which n futures can complete.
CompletionOrders(n) ==
    {o \in [1..n -> 1..n] : \A i, j \in 1..n : i # j => o[i] # o[j]}

\* _build_file_hash_map_parallel (lines 110-149): every path is hashed, the
\* reading of some files fails, the results come in any order.
BuildFileHashMap ==
    /\ post_pc = "hash"
    /\ \E o \in CompletionOrders(Len(paths)),
          io_fails \in SUBSET {k \in DOMAIN paths :
                                  disk.file[paths[k]] \in Contents} :
         storage' =
             BuildFrom([k \in DOMAIN paths |->
                           HashFile(paths[o[k]], o[k] \in io_fails)],
                       storage)
    /\ post_pc' = "link"
    /\ UNCHANGED << consumer_vars, paths, disk, processed_files >>

\* The sort key of line 173, (-original_size, len(file_path_str)): a comes
\* before b.
KeyLess(a, b) ==
    \/ a.original_size > b.original_size
    \/ /\ a.original_size = b.original_size
       /\ Len(a.file_path_str) < Len(b.file_path_str)

\* x put into the sorted list, behind the items that do not come after it.
InsertInfo(sorted, x) ==
    LET later == {i \in DOMAIN sorted : KeyLess(x, sorted[i])}
        pos == IF later = {} THEN Len(sorted) + 1
               ELSE CHOOSE i \in later : \A j \in later : i <= j
    IN  SubSeq(sorted, 1, pos - 1) \o <<x>> \o SubSeq(sorted, pos, Len(sorted))

\* list.sort(key=...) of line 173, which is stable.
RECURSIVE SortInfos(_)
SortInfos(list) ==
    IF list = <<>> THEN <<>>
    ELSE InsertInfo(SortInfos(SubSeq(list, 1, Len(list) - 1)), list[Len(list)])

\* shutil.copy2(src, dst) on the disk d: [exc, disk].  It raises
\* SameFileError when src and dst are one file, and an OSError when src is
\* no regular file.
Copy2(d, src, dst) ==
    IF src = dst \/ d.file[src] \notin Contents THEN [exc |-> TRUE, disk |-> d]
    ELSE [exc |-> FALSE, disk |-> [d EXCEPT !.file[dst] = d.file[src]]]

\* Lines 178-216 for one duplicate; st is [disk, linked_files].  unlink()
\* raises on a directory; os.link raises when link_fail says so or when the
\* original is no regular file; then copy2 is called as line 206 calls it,
\* and what it raises is logged.
LinkOne(st, original, duplicate, link_fail) ==
    IF st.disk.file[duplicate] = "dir"
      THEN [st EXCEPT !.disk = Copy2(st.disk, original, original).disk]
    ELSE LET d1 == [st.disk EXCEPT !.file[duplicate] = "none"]
         IN  IF link_fail \/ d1.file[original] \notin Contents
               THEN [st EXCEPT !.disk = Copy2(d1, original, original).disk]
               ELSE [disk |-> [d1 EXCEPT !.file[duplicate] = d1.file[original]],
                     linked_files |-> st.linked_files \cup {duplicate}]

\* Lines 177-216: the duplicates of one original, in the order of the list.
RECURSIVE LinkDuplicates(_, _, _, _)
LinkDuplicates(st, original, duplicate_info, link_fails) ==
    IF duplicate_info = <<>> THEN st
    ELSE LinkDuplicates(
             LinkOne(st, original, Head(duplicate_info).file_path_str,
                     Head(duplicate_info).file_path_str \in link_fails),
             original, Tail(duplicate_info), link_fails)

\* Lines 168-216: the groups of hash_to_files that hold more than one file;
\* sorted is hash_to_files with those groups sorted.
RECURSIVE LinkGroups(_, _, _, _)
LinkGroups(st, hs, sorted, link_fails) ==
    IF hs = {} THEN st
    ELSE LET h == CHOOSE x \in hs : TRUE
             next == IF Len(sorted[h]) <= 1 THEN st
                     ELSE LinkDuplicates(st, sorted[h][1].file_path_str,
                                         Tail(sorted[h]), link_fails)
         IN  LinkGroups(next, hs \ {h}, sorted, link_fails)

\* The paths that are duplicates in hash_to_files once it is sorted.
DuplicatePaths(sorted) ==
    UNION { {sorted[h][k].file_path_str : k \in 2..Len(sorted[h])} :
            h \in Checksums }

\* _create_hard_links (lines 163-219): os.link fails for some duplicates.
CreateHardLinks ==
    /\ post_pc = "link"
    /\ LET sorted == [h \in Checksums |->
                         IF Len(storage.hash_to_files[h]) <= 1
                           THEN storage.hash_to_files[h]
                           ELSE SortInfos(storage.hash_to_files[h])]
       IN  \E link_fails \in SUBSET DuplicatePaths(sorted) :
             LET st == LinkGroups([disk |-> disk,
                                   linked_files |-> storage.linked_files],
                                  Checksums, sorted, link_fails)
             IN  /\ disk' = st.disk
                 /\ storage' = [storage EXCEPT !.hash_to_files = sorted,
                                               !.linked_files = st.linked_files]
    /\ post_pc' = "compress"
    /\ UNCHANGED << consumer_vars, paths, processed_files >>

\* Path(path).suffix.lower().
Suffix(path) == Lower(Splitext(path))

\* _should_compress_file (lines 284-294); stat() raises OSError for a path
\* that does not exist.
ShouldCompress(path) ==
    /\ Suffix(path) \in COMPRESSIBLE_EXTENSIONS
    /\ disk.file[path] \in Contents
    /\ Size(disk.file[path]) >= MIN_COMPRESS_SIZE

\* _compress_files_parallel (lines 221-282): the list comprehension looks
\* every path up in path_to_file_info, which raises KeyError for a path that
\* is not in it; each file to compress gets the .br and .gz files that turn
\* out small enough.
CompressFiles ==
    /\ post_pc = "compress"
    /\ IF \E k \in DOMAIN paths :
            paths[k] \notin DOMAIN storage.path_to_file_info
         THEN /\ post_pc' = "raised"
              /\ disk' = disk
         ELSE LET compressible_files ==
                      {paths[k] : k \in
                          {j \in DOMAIN paths :
                              /\ paths[j] \notin storage.linked_files
                              /\ ShouldCompress(paths[j])}}
              IN  /\ \E made \in [compressible_files -> SUBSET Variants] :
                        disk' = [disk EXCEPT !.variant =
                                    @ \cup UNION { {<<q, v>> : v \in made[q]} :
                                                   q \in compressible_files }]
                  /\ post_pc' = "return"
    /\ UNCHANGED << consumer_vars, paths, storage, processed_files >>

\* Lines 98-106 from path k on.
RECURSIVE ProcessedFrom(_)
ProcessedFrom(k) ==
    IF k > Len(paths) THEN <<>>
    ELSE <<<<paths[k], "">>>>
         \o (IF <<paths[k], ".br">> \in disk.variant
               THEN <<<<paths[k], ".br">>>> ELSE <<>>)
         \o (IF <<paths[k], ".gz">> \in disk.variant
               THEN <<<<paths[k], ".gz">>>> ELSE <<>>)
         \o ProcessedFrom(k + 1)

\* Lines 91-108: the summary is logged and the processed files are returned.
PostProcessReturn ==
    /\ post_pc = "return"
    /\ processed_files' = ProcessedFrom(1)
    /\ post_pc' = "done"
    /\ UNCHANGED << consumer_vars, paths, disk, storage >>

StaticNext ==
    \/ BuildFileHashMap
    \/ CreateHardLinks
    \/ CompressFiles
    \/ PostProcessReturn

StaticSpec == StaticInit /\ [][StaticNext]_vars

\* ------------------------------------------------------------------------
\* Properties
\* ------------------------------------------------------------------------

\* The calls of _consume made by the last step.
LastChecks == {checks[k] : k \in DOMAIN checks}

\* The calls the event loop's sweep made on the tracked path.
TrackedSweeps == {c \in LastChecks : c.via = "sweep" /\ c.path = tracked}

\* C1: debounce coalescing.  The sweep hands a path to _consume only when
\* more than the debounce interval has passed since the last add/modify
\* event processed for it, at most once after that event, and never between
\* two add/modify events that are less than the interval apart.
C1_DebounceCoalescing ==
    /\ \A c \in TrackedSweeps :
         /\ c.before.ev_age > inotify_debounce
         /\ ~c.before.handed
    /\ ~hist.split

\* A hand-off of a path whose last event followed another one within the
\* debounce interval.
C1_Witness ==
    \E c \in TrackedSweeps :
        c.before.coalesced /\ inotify_debounce > 0 /\ c.res.submits = 1

\* C2: idempotent dispatch.  Neither the initial scan nor a sweep submits a
\* path to the task sink that was submitted before, unless an add/modify
\* event for the path was processed since.
C2_IdempotentDispatch ==
    \A c \in LastChecks :
        (c.path = tracked /\ c.res.submits > 0) => ~c.before.submitted

\* A sweep submits a path after an event for it.
C2_Witness ==
    \E c \in TrackedSweeps :
        c.res.submits = 1 /\ ~c.res.sink_exc /\ hist.submitted
        /\ fs[tracked] = "file"

\* C3: no stale dispatch after deletion.  Once a delete event for a path is
\* processed the path is not in the pending map, whatever its age was, and
\* the sweep does not hand it to _consume, until an add/modify event for it
\* is processed.
C3_NoStaleDispatch ==
    /\ hist.deleted => ~InDict(notified_files, tracked)
    /\ \A c \in TrackedSweeps : ~c.before.deleted

\* A delete event was processed for a path that had an add/modify event no
\* longer ago than the debounce interval and had not been handed off.
C3_Witness ==
    /\ pc = "sweep"
    /\ hist.deleted
    /\ hist.ev_age >= 0
    /\ hist.ev_age <= inotify_debounce
    /\ ~hist.handed
    /\ fs[tracked] = "file"
    /\ notified_files # <<>>

\* C4: crash-proof per-file pipeline.  No exception raised inside _consume
\* leaves it, in the initial scan or in a sweep.
C4_NoEscape ==
    /\ pc # "crashed"
    /\ \A c \in LastChecks : ~c.res.raised

\* The items of the pending map that are ready when a sweep starts.
ReadyAtStart ==
    {notified_files[k].path : k \in
        {j \in DOMAIN notified_files :
            WaitedLongEnough(notified_files[j], 0)
            /\ FileStillExists(notified_files[j])}}

\* C5: dispatcher failure containment.  When consume_file.delay raises, the
\* exception is logged inside _consume and does not leave it; the sweep goes
\* on to every other ready file, the scan to the other paths of the glob.
C5_Step ==
    (\E c \in {checks'[k] : k \in DOMAIN checks'} : c.res.sink_exc) =>
        /\ pc' # "crashed"
        /\ \A k \in DOMAIN checks' :
             checks'[k].res.sink_exc =>
                 ~checks'[k].res.raised /\ checks'[k].res.errors >= 1
        /\ pc = "sweep" =>
             \A p \in ReadyAtStart : \E k \in DOMAIN checks' : checks'[k].path = p
        /\ pc = "scan" =>
             pc' = "scan" /\ scan_rem' = scan_rem \ {checks'[1].path}

\* C5, as a property of every step.
C5_SinkFailureContained == [][C5_Step]_vars

\* A sweep in which the submission of the first ready file failed and the
\* second ready file was submitted.
C5_Witness ==
    /\ Len(checks) = 2
    /\ checks[1].via = "sweep"
    /\ checks[1].res.sink_exc
    /\ checks[2].res.submits = 1
    /\ ~checks[2].res.sink_exc
    /\ pc = "wait"

\* A call of _consume on a regular file below CONSUMPTION_DIR that is not
\* ignored and has a supported extension.
Eligible(c) ==
    /\ c.kind = "file"
    /\ ~IsIgnored(Abs(c.path)).raised
    /\ ~IsIgnored(Abs(c.path)).ignored
    /\ is_file_ext_supported(Splitext(c.path[Len(c.path)]))

\* C6: retry exhaustion.  When every open() of the budget fails, the file
\* is not submitted, one warning is logged, and os_error_retry_count calls
\* of open() were made.
C6_RetryExhaustion ==
    \A c \in LastChecks :
        (Eligible(c) /\ c.fails >= os_error_retry_count) =>
            /\ c.res.submits = 0
            /\ c.res.warnings = 1
            /\ c.res.opens = os_error_retry_count

C6_Witness ==
    \E c \in LastChecks :
        /\ c.via = "call"
        /\ Eligible(c)
        /\ c.fails = os_error_retry_count
        /\ c.res.opens = os_error_retry_count
        /\ c.res.warnings = 1

\* C7: retry success.  When the k-th open() is the first to succeed, k from
\* 1 to os_error_retry_count, the file is submitted once, with no warning,
\* after exactly k calls of open().
C7_RetrySuccess ==
    \A c \in LastChecks :
        (Eligible(c) /\ c.fails < os_error_retry_count) =>
            /\ c.res.submits = 1
            /\ c.res.warnings = 0
            /\ c.res.opens = c.fails + 1

\* The last attempt of the budget is the one that succeeds.
C7_Witness ==
    \E c \in LastChecks :
        /\ c.via = "call"
        /\ Eligible(c)
        /\ c.fails = os_error_retry_count - 1
        /\ c.res.opens = os_error_retry_count
        /\ c.res.submits = 1

\* C8: best-effort tagging.  When _tags_from_path raises for a file that
\* passed the checks, the file is still submitted once and the job carries
\* tag_ids = None, not the ids found before the exception.
C8_BestEffortTagging ==
    \A c \in LastChecks :
        (Eligible(c) /\ c.fails < os_error_retry_count /\ subdirs_as_tags
         /\ c.res.tag_exc) =>
            /\ c.res.submits = 1
            /\ c.res.tags_none
            /\ c.res.tag_ids = {}
            /\ ~c.res.raised

\* The second registry call of a path with two directories failed, after
\* the first had resolved a tag.
C8_Witness ==
    \E c \in LastChecks :
        /\ c.via = "call"
        /\ c.path = <<NameInvUpper, NameInvLower, NameB>>
        /\ c.res.tag_exc
        /\ c.res.reg # <<>>
        /\ c.res.submits = 1
        /\ ~c.res.sink_exc

\* The directory names of a path of the watched directory.
DirNames(p) == {p[k] : k \in 1..(Len(p) - 1)}

\* C9: tag resolution is case-insensitively idempotent.  The Tag table
\* never holds two names that are equal but for case; a tag keeps its id
\* once created; and the ids a derivation returns are, for each directory
\* name of the path, the one tag with that name but for case.
C9_TableOk ==
    /\ \A i, j \in DOMAIN tags : i # j => Lower(tags[i]) # Lower(tags[j])
    /\ \A c \in LastChecks :
         (c.res.tag_calls = 1 /\ ~c.res.tag_exc) =>
             /\ \A n \in DirNames(c.path) :
                  \E k \in c.res.tag_ids :
                      /\ k \in DOMAIN tags
                      /\ Lower(tags[k]) = Lower(n)
             /\ \A k \in c.res.tag_ids :
                  \E n \in DirNames(c.path) : Lower(tags[k]) = Lower(n)
             /\ Cardinality(c.res.tag_ids)
                  = Cardinality({Lower(n) : n \in DirNames(c.path)})

C9_IdsStable ==
    \A k \in DOMAIN tags : k \in DOMAIN tags' /\ tags'[k] = tags[k]

\* C9: the table is sound in every state and no step changes a tag's id.
C9_TagIdempotence == [](C9_TableOk) /\ [][C9_IdsStable]_vars

\* The tag created as "I" is the one returned for i/b.p, and for I/i/b.p it
\* is returned once.
C9_Witness ==
    /\ tags = <<NameInvUpper>>
    /\ \E c \in LastChecks :
         /\ c.path \in {<<NameInvLower, NameB>>,
                        <<NameInvUpper, NameInvLower, NameB>>}
         /\ c.res.tag_calls = 1
         /\ c.res.tag_ids = {1}

\* handle() has returned or was left by an exception.
Terminated == pc \in {"done", "error", "crashed", "interrupted"}

\* C10: graceful stop.  Once stop_flag is set handle() ends, and once the
\* loop has seen the flag no call of _consume is made: what is still in
\* the pending map is not dispatched.
C10_NoCallAfterStop == stop_observed => checks' = <<>> /\ pc' = "done"

\* C10: the flag leads to the end of handle(), and no step follows the
\* loop's sight of it.
C10_GracefulStop ==
    /\ stop_flag ~> Terminated
    /\ [][C10_NoCallAfterStop]_vars

\* The loop ended on the flag with a file still pending.
C10_Witness ==
    /\ pc = "done"
    /\ stop_observed
    /\ notified_files # <<>>
    /\ \E k \in DOMAIN notified_files :
         fs[notified_files[k].path] = "file"

\* C11: interrupt handling.  A KeyboardInterrupt leaves handle() unhandled
\* only when it is raised during the start-up scan; raised while the loop
\* waits or sweeps it reaches the except clause, which sets stop_flag, and
\* the loop ends as it does on the flag.
C11_Step ==
    /\ pc' = "interrupted" => pc = "scan"
    /\ (pc \in {"wait", "sweep"} /\ pc' \notin Running) =>
           pc' \in {"except", "done", "crashed"}
    /\ pc = "except" => stop_flag' /\ pc' = "done"

\* C11, as a property of every step.
C11_InterruptHandled == [][C11_Step]_vars

\* The loop ended by an interrupt that came between a batch and its sweep:
\* the timeout is still the one of the wait before.
C11_Witness ==
    /\ pc = "done"
    /\ stop_flag
    /\ notified_files # <<>>
    /\ read_timeout_ms = testing_timeout_ms

\* A call of _consume on a readable regular file of the watched directory
\* that has a supported extension and no segment matching an ignore pattern.
Consumable(c) ==
    /\ c.kind = "file"
    /\ c.fails < os_error_retry_count
    /\ is_file_ext_supported(Splitext(c.path[Len(c.path)]))
    /\ \A pat \in CONSUMER_IGNORE_PATTERNS :
         \A k \in DOMAIN c.path : ~Fnmatch(IgnoreParts(c.path)[k], pat)

\* C12: one-shot mode.  With --oneshot the scan calls _consume once on each
\* path the glob yields and submits one job for each consumable file, with
\* tag_ids = None when CONSUMER_SUBDIRS_AS_TAGS is off; handle() then
\* returns, and never waits or sweeps.
C12_OneShot ==
    is_oneshot =>
        /\ pc \notin {"wait", "sweep", "except", "crashed"}
        /\ pc = "done" => scan_rem = {}
        /\ notified_files = <<>>
        /\ \A c \in LastChecks :
             /\ c.via = "scan"
             /\ Consumable(c) =>
                  /\ c.res.submits = 1
                  /\ ~subdirs_as_tags => c.res.tags_none

\* C13: start-up validation.  When the directory does not exist or is not
\* a directory, handle() raises CommandError before the scan: _consume is
\* never called, nothing is submitted, no tag is made and the loop is never
\* entered.
C13_StartupFatal ==
    dir_status # "dir" =>
        /\ pc \in {"start", "error"}
        /\ scan_rem = {}
        /\ checks = <<>>
        /\ tags = <<>>
        /\ notified_files = <<>>
        /\ hist = NoHist

\* handle() has raised CommandError for a path that is a regular file, with
\* files where the glob would have looked.
C13_Witness ==
    /\ pc = "error"
    /\ dir_status = "file"
    /\ \A q \in WatchPaths : fs[q] = "file"

\* The segment list of a path of the watched directory: every directory
\* segment with a trailing separator, the final segment bare.
SegmentList(rel) ==
    [k \in DOMAIN rel |-> IF k < Len(rel) THEN Append(rel[k], "/") ELSE rel[k]]

\* Some ignore pattern matches some element of the segment list.
MatchesIgnorePattern(rel) ==
    \E pat \in CONSUMER_IGNORE_PATTERNS :
        \E k \in DOMAIN rel : Fnmatch(SegmentList(rel)[k], pat)

\* C14: ignore-filter correctness.  For a path below CONSUMPTION_DIR,
\* _is_ignored is true exactly when some pattern matches some element of
\* the segment list, and _consume then returns without a log line; this
\* holds also when a directory of the path has the name of the file.
C14_IgnoreFilter ==
    \A c \in LastChecks :
        (c.via = "call" /\ c.kind # "dir" /\ ~c.res.raised) =>
            /\ IsIgnored(Abs(c.path)).ignored <=> MatchesIgnorePattern(c.path)
            /\ MatchesIgnorePattern(c.path) =>
                 /\ c.res.submits = 0
                 /\ c.res.warnings = 0
                 /\ c.res.debugs = 0

PendingInWait ==
    /\ pc = "wait"
    /\ ~stop_flag
    /\ directory = CONSUMPTION_DIR
    /\ inotify_debounce > 0
    /\ InDict(notified_files, tracked)
    /\ fs[tracked] = "file"

\* C16: eventual dispatch.  A file that is pending after its add/modify
\* event and stays a regular file is submitted in the end, also when no
\* other event ever comes: the wait that holds it pending does not last for
\* ever, it ends by its timeout and the sweep that follows looks at the
\* file.  (A wait is also over when the flag is set or something changes on
\* disk.)
C16_EventualDispatch ==
    \A f \in {g \in [WatchPaths -> Kinds] : g[<<NameA>>] = "file"} :
        (PendingInWait /\ tracked = <<NameA>> /\ fs = f)
            ~> (pc # "wait" \/ stop_flag \/ fs # f)

\* C17: timeout recomputation.  Whenever the loop is about to wait, the
\* timeout of the wait is the debounce interval if the pending map is not
\* empty, the test interval if it is empty under --testing, and 0 (no
\* timeout) if it is empty otherwise; this holds for the first wait too.
\* Both sides are in ticks.
C17_TimeoutRecomputed ==
    pc = "wait" =>
        read_timeout_ms * TicksPerMs =
            IF notified_files # <<>> THEN inotify_debounce
            ELSE IF is_testing THEN testing_timeout_ms * TicksPerMs
            ELSE 0

\* C18: the postcondition of a sweep that returns.  Every path of the
\* pending map falls in one of three groups.  A regular file older than the
\* debounce interval is handed to _consume, once, and removed; a regular
\* file is kept only if its age is at most the interval, with its timestamp
\* and its place; a path that is not a regular file is removed without a
\* call of _consume.  The pending map after the sweep is the kept group.
\* (A file is examined after the calls for the files before it, so it can be
\* handed over when the time those took brings it over the interval.)
C18_Step ==
    (pc = "sweep" /\ pc' \in {"wait", "done"}) =>
        LET d == notified_files
            handed == {checks'[k].path : k \in DOMAIN checks'}
            HandedBefore(j) ==
                Cardinality({i \in 1..(j - 1) : d[i].path \in handed})
            kept == SelectSeq(d, LAMBDA it :
                        it.path \notin handed /\ fs[it.path] = "file")
        IN  /\ \A k \in DOMAIN checks' :
                 /\ checks'[k].via = "sweep"
                 /\ checks'[k].kind = "file"
                 /\ InDict(d, checks'[k].path)
            /\ \A i, k \in DOMAIN checks' :
                 i # k => checks'[i].path # checks'[k].path
            /\ \A j \in DOMAIN d :
                 IF fs[d[j].path] # "file"
                   THEN /\ d[j].path \notin handed
                        /\ ~InDict(notified_files', d[j].path)
                   ELSE /\ (d[j].path \in handed)
                             # InDict(notified_files', d[j].path)
                        /\ d[j].age > inotify_debounce => d[j].path \in handed
                        /\ d[j].path \in handed =>
                             d[j].age + HandedBefore(j) * MaxConsumeDelay
                                 > inotify_debounce
                        /\ InDict(notified_files', d[j].path) =>
                             d[j].age <= inotify_debounce
            /\ \E T \in 0..Cap : notified_files' = Aged(kept, T)

\* C18, as a property of every step.
C18_SweepPostcondition == [][C18_Step]_vars

\* A sweep handed one file over and kept the other, whose age is the
\* debounce interval exactly.
C18_Witness ==
    /\ pc = "wait"
    /\ Len(checks) = 1
    /\ checks[1].via = "sweep"
    /\ Len(notified_files) = 1
    /\ notified_files[1].age = inotify_debounce
    /\ inotify_debounce > 0

\* The age of path p in the pending map d, -1 when p is not in it.
AgeOf(d, p) ==
    IF InDict(d, p) THEN d[CHOOSE k \in DOMAIN d : d[k].path = p].age ELSE -1

\* C19: a wait that returns without the stop signal, with a batch or on a
\* timeout, is followed by one sweep before the next wait, and the whole
\* batch is in the pending map when the sweep starts: a path whose last
\* change is an addition or a modification has a fresh timestamp, a path
\* whose last change is a deletion is absent, every other entry is as it
\* was.  The pending map changes in no step that stays in the wait, a wait
\* is entered from the initial scan or from a sweep only, and between the
\* wake and the next wait the map changes in the sweep alone.
C19_Step ==
    /\ (pc = "wait" /\ pc' = "wait") =>
         /\ notified_files' = notified_files
         /\ hist' = hist
         /\ read_timeout_ms' = read_timeout_ms
    /\ (pc = "wait" /\ pc' \notin {"wait", "sweep"}) =>
         (pc' = "except" \/ (pc' = "done" /\ stop_flag))
    /\ (pc = "wait" /\ pc' = "sweep") =>
         /\ ~stop_flag
         /\ \E dt \in 0..Cap :
              \A p \in WatchPaths :
                  \/ AgeOf(notified_files', p) =
                         IF InDict(notified_files, p)
                           THEN Min(AgeOf(notified_files, p) + dt, Cap)
                           ELSE -1
                  \/ /\ p \in Reported
                     /\ AgeOf(notified_files', p) \in {-1, 0}
         /\ (hist.ev_age # 0 /\ hist'.ev_age = 0 /\ ~hist'.deleted) =>
              AgeOf(notified_files', tracked) = 0
         /\ (hist'.deleted /\ ~hist.deleted) =>
              AgeOf(notified_files', tracked) = -1
    /\ pc = "sweep" =>
         /\ pc' \in {"sweep", "wait", "done", "crashed", "except"}
         /\ pc' = "sweep" =>
              /\ notified_files' = notified_files
              /\ hist' = hist
              /\ tags' = tags
    /\ (pc' = "wait" /\ pc # "wait") => pc \in {"scan", "sweep"}
    /\ (pc' = "sweep" /\ pc # "sweep") => pc = "wait"

\* C19, as a property of every step.
C19_SweepOnEveryWake == [][C19_Step]_vars

\* A wait with two files pending timed out, no change was delivered, and
\* the sweep is about to start.
C19_Witness ==
    /\ pc = "sweep"
    /\ inotify_debounce >= TicksPerMs
    /\ Len(notified_files) = 2
    /\ \A k \in DOMAIN notified_files :
         notified_files[k].age >= inotify_debounce

\* The age of the oldest entry of the pending map d.
OldestAge(d) ==
    CHOOSE a \in {d[k].age : k \in DOMAIN d} :
        \A k \in DOMAIN d : d[k].age <= a

\* C20: whenever files are pending, the wait is set to end when the debounce
\* window of the oldest pending file expires: its timeout is what is left
\* of that window, also when changes of other paths were processed
\* meanwhile.  (Stated for a debounce interval of whole milliseconds and
\* for a wait that starts while that window is still open.)
C20_WakeAtExpiry ==
    (/\ pc = "wait"
     /\ notified_files # <<>>
     /\ inotify_debounce % TicksPerMs = 0
     /\ OldestAge(notified_files) < inotify_debounce) =>
        read_timeout_ms * TicksPerMs
            = inotify_debounce - OldestAge(notified_files)

\* Path p is in the pending map before the step and not after it.
Leaves(p) == InDict(notified_files, p) /\ ~InDict(notified_files', p)

\* The step applies a batch whose last change of p is a deletion.
ByDelete(p) ==
    /\ pc = "wait"
    /\ pc' = "sweep"
    /\ p = tracked => hist'.deleted

\* The step is a sweep that finds p is no regular file.
ByVanish(p) == pc = "sweep" /\ fs[p] # "file"

\* The step is a sweep that hands p to _consume.
ByHandOff(p) ==
    /\ pc = "sweep"
    /\ \E k \in DOMAIN checks' :
         checks'[k].via = "sweep" /\ checks'[k].path = p

\* The step is a sweep in which _consume submits p and the task sink takes it.
ByDispatch(p) ==
    /\ pc = "sweep"
    /\ \E k \in DOMAIN checks' :
         /\ checks'[k].via = "sweep"
         /\ checks'[k].path = p
         /\ checks'[k].res.submits = 1
         /\ ~checks'[k].res.sink_exc

\* C21 as written: a path leaves the pending map only through a delete
\* event, through being successfully dispatched, or through vanishing from
\* disk; a path on disk that was not successfully dispatched stays.
C21_Step ==
    \A p \in WatchPaths :
        Leaves(p) => (ByDelete(p) \/ ByDispatch(p) \/ ByVanish(p))

\* C21 as written, as a property of every step.
C21_AsWritten == [][C21_Step]_vars

\* C21, amended: a path leaves the pending map only through a delete event,
\* through being handed to _consume by a sweep (whether or not _consume
\* submits it and whether or not the submission succeeds), or through being
\* no regular file when a sweep examines it; in every other case it stays.
C21_AmendedStep ==
    \A p \in WatchPaths :
        Leaves(p) => (ByDelete(p) \/ ByHandOff(p) \/ ByVanish(p))

\* C21 amended, as a property of every step.
C21_PendingLifecycle == [][C21_AmendedStep]_vars

\* A sweep handed a file over, the task sink refused it, and the file, still
\* on disk, is no longer pending.
C21_Witness ==
    /\ pc = "wait"
    /\ \E c \in {checks[k] : k \in DOMAIN checks} :
         /\ c.via = "sweep"
         /\ c.res.sink_exc
         /\ fs[c.path] = "file"
         /\ ~InDict(notified_files, c.path)

\* C22: no automatic retry after a dispatch failure.  A path whose
\* submission fails in a sweep is not in the pending map after that sweep; a
\* path enters the pending map only when an add/modify event for it is
\* processed; a sweep hands over only paths of the pending map, and never a
\* path it handed over since the last add/modify event for it.
C22_Step ==
    /\ \A k \in DOMAIN checks' :
         (checks'[k].via = "sweep" /\ checks'[k].res.sink_exc) =>
             /\ InDict(notified_files, checks'[k].path)
             /\ ~InDict(notified_files', checks'[k].path)
    /\ \A k \in DOMAIN checks' :
         (checks'[k].via = "sweep" /\ checks'[k].path = tracked) =>
             /\ InDict(notified_files, tracked)
             /\ ~checks'[k].before.handed
    /\ \A p \in WatchPaths :
         (~InDict(notified_files, p) /\ InDict(notified_files', p)) =>
             /\ pc = "wait"
             /\ pc' = "sweep"
             /\ AgeOf(notified_files', p) = 0
             /\ p = tracked => (hist'.ev_age = 0 /\ ~hist'.handed)

\* C22, as a property of every step.
C22_NoAutomaticRetry == [][C22_Step]_vars

\* The submission of the one pending file failed; the file is on disk, the
\* pending map is empty and the next wait has no timeout.
C22_Witness ==
    /\ pc = "wait"
    /\ ~is_testing
    /\ Len(checks) = 1
    /\ checks[1].via = "sweep"
    /\ checks[1].path = tracked
    /\ checks[1].res.sink_exc
    /\ fs[tracked] = "file"
    /\ notified_files = <<>>
    /\ read_timeout_ms = 0

\* The calls of _consume on a path that is not ignored and that is neither
\* a regular file nor a directory.
VanishedCalls ==
    {c \in LastChecks :
        /\ c.kind = "none"
        /\ ~c.res.raised
        /\ ~IsIgnored(Abs(c.path)).ignored}

\* C23 as written: _consume rejects a path that is not ignored and no longer
\* exists with a warning and submits nothing.
C23_AsWritten ==
    \A c \in VanishedCalls : c.res.warnings = 1 /\ c.res.submits = 0

\* C23, amended: _consume rejects a path that is not ignored and no longer
\* exists with one message of level debug; it logs no warning and no error,
\* does not open the file, does not call the tag registry and submits
\* nothing.
C23_VanishedFile ==
    \A c \in VanishedCalls :
        /\ c.res.debugs = 1
        /\ c.res.warnings = 0
        /\ c.res.errors = 0
        /\ c.res.opens = 0
        /\ c.res.tag_calls = 0
        /\ c.res.submits = 0

\* _consume was called on a.p, which is not on disk.
C23_Witness ==
    \E c \in VanishedCalls :
        c.via = "call" /\ c.path = <<NameA>> /\ c.res.debugs = 1

\* What a call logged and did: warnings, debug messages, open() calls,
\* registry calls, submissions.
Outcome(c) ==
    << c.res.warnings, c.res.debugs, c.res.opens, c.res.tag_calls,
       c.res.submits >>

\* C24: the checks of _consume run in the order directory or ignored,
\* regular file, supported extension, open retry, and the first that fails
\* decides what the call does, whatever the later ones would find.  A
\* regular file with an unsupported extension gets one warning, no open(),
\* no registry call and no submission.
C24_ShortCircuit ==
    \A c \in LastChecks :
        /\ c.kind = "dir" => ~c.res.raised
        /\ ~c.res.raised =>
             IF c.kind = "dir" \/ IsIgnored(Abs(c.path)).ignored
               THEN Outcome(c) = <<0, 0, 0, 0, 0>>
             ELSE IF c.kind # "file"
               THEN Outcome(c) = <<0, 1, 0, 0, 0>>
             ELSE IF Splitext(c.path[Len(c.path)]) \notin SupportedExts
               THEN Outcome(c) = <<1, 0, 0, 0, 0>>
             ELSE IF c.fails >= os_error_retry_count
               THEN Outcome(c) = <<1, 0, os_error_retry_count, 0, 0>>
             ELSE /\ c.res.warnings = 0
                  /\ c.res.debugs = 0
                  /\ c.res.opens = c.fails + 1
                  /\ c.res.submits = 1

\* _consume was called on the regular file d.x, whose extension is not
\* supported and which open() would have refused fifty times.
C24_Witness ==
    \E c \in LastChecks :
        /\ c.via = "call"
        /\ c.path = <<NameX>>
        /\ c.kind = "file"
        /\ c.fails = os_error_retry_count
        /\ Outcome(c) = <<1, 0, 0, 0, 0>>

\* C25: for a path that does not lie under settings.CONSUMPTION_DIR,
\* _is_ignored raises and answers neither true nor false, so that _consume
\* on such a path, unless it is a directory, ends with the exception and
\* submits nothing; for a path under it, _is_ignored answers, and the
\* answer is that of the patterns on the segments of the path relative to
\* CONSUMPTION_DIR.
C25_IgnorePrecondition ==
    \A c \in LastChecks :
        LET i == IsIgnored(Abs(c.path))
        IN  IF IsPrefix(CONSUMPTION_DIR, Abs(c.path))
              THEN /\ ~i.raised
                   /\ i.ignored <=>
                        \E pat \in CONSUMER_IGNORE_PATTERNS :
                            \E k \in DOMAIN c.path :
                                Fnmatch(IgnoreParts(c.path)[k], pat)
              ELSE /\ i.raised
                   /\ ~i.ignored
                   /\ c.kind # "dir" =>
                        (c.res.raised /\ Outcome(c) = <<0, 0, 0, 0, 0>>)

\* _consume was called on the file t/a.p of a directory outside
\* CONSUMPTION_DIR and ended with the exception of _is_ignored.
C25_Witness ==
    /\ directory = OtherDir
    /\ pc = "crashed"
    /\ \E c \in LastChecks :
         /\ c.via = "call"
         /\ c.path = <<NameTmp, NameA>>
         /\ c.kind = "file"
         /\ c.res.raised

\* The ids, in the Tag table, of the directory names of path p.
DirTagIds(p) ==
    {k \in DOMAIN tags : \E n \in DirNames(p) : Lower(tags[k]) = Lower(n)}

\* C26: with CONSUMER_SUBDIRS_AS_TAGS set and a registry that works, the job
\* submitted for a file carries exactly the ids of the tags of the directory
\* names between CONSUMPTION_DIR and the file, the file name excluded, one
\* id for the names that are equal but for case: one id for a file in one
\* directory; no tag is made for the file name.  With the setting off the
\* registry is not called, no tag exists and the job carries tag_ids = None.
C26_DerivedTags ==
    \A c \in LastChecks :
        (c.res.submits = 1 /\ ~c.res.raised) =>
            IF subdirs_as_tags
              THEN ~c.res.tag_exc =>
                     /\ c.res.tag_calls = 1
                     /\ ~c.res.tags_none
                     /\ c.res.tag_ids = DirTagIds(c.path)
                     /\ Cardinality(c.res.tag_ids)
                          = Cardinality({Lower(n) : n \in DirNames(c.path)})
                     /\ Len(c.path) = 2 => Cardinality(c.res.tag_ids) = 1
                     /\ Len(c.path) = 1 => c.res.tag_ids = {}
                     /\ \A k \in DOMAIN tags :
                          \E q \in GatePaths : tags[k] \in DirNames(q)
              ELSE /\ c.res.tag_calls = 0
                   /\ c.res.tags_none
                   /\ c.res.tag_ids = {}
                   /\ tags = <<>>

\* The job of I/i/b.p was submitted with the one id of the tag "I".
C26_Witness ==
    /\ subdirs_as_tags
    /\ tags = <<NameInvUpper>>
    /\ \E c \in LastChecks :
         /\ c.via = "call"
         /\ c.path = <<NameInvUpper, NameInvLower, NameB>>
         /\ c.res.submits = 1
         /\ ~c.res.sink_exc
         /\ ~c.res.tag_exc
         /\ c.res.tag_ids = {1}

\* The pending map d as the set of its entries.
Entries(d) == {d[k] : k \in DOMAIN d}

\* C27: the pending map after the events of a batch are applied does not
\* depend on the order in which the batch is iterated, also when the batch
\* holds a deletion and an addition or modification of one path.
C27_BatchOrderIndependence ==
    pc = "wait" =>
        \A b \in Batches :
            \A o1, o2 \in Orders(b) :
                Entries(ApplyBatch(notified_files, o1))
                    = Entries(ApplyBatch(notified_files, o2))

\* C28: whenever the pending map is not empty when a wait starts, the wait
\* has a timeout that is not zero, whatever the debounce interval, the
\* intervals below one millisecond included.  (Stated for the intervals
\* above zero.)
C28_BoundedWait ==
    (pc = "wait" /\ inotify_debounce > 0 /\ notified_files # <<>>) =>
        read_timeout_ms > 0

\* _create_hard_links has returned.
HardLinksDone == post_pc \in {"compress", "return", "done", "raised"}

\* C29: after _create_hard_links returns, every duplicate of a group of
\* files with one checksum exists and has the content of the group's
\* original, whether os.link worked or failed and the copy was made.
C29_DeduplicationKeepsFiles ==
    HardLinksDone =>
        \A h \in Checksums :
            \A k \in 2..Len(storage.hash_to_files[h]) :
                /\ disk.file[storage.hash_to_files[h][k].file_path_str]
                      \in Contents
                /\ disk.file[storage.hash_to_files[h][k].file_path_str]
                      = disk.file[storage.hash_to_files[h][1].file_path_str]

\* C30: post_process goes through the compression without an exception for
\* every list of collected paths, those that the hashing skipped included,
\* and returns one entry for every path of the list.
C30_PostProcessTolerant ==
    /\ post_pc # "raised"
    /\ post_pc = "done" =>
         \A k \in DOMAIN paths :
             Cardinality({j \in DOMAIN processed_files :
                             processed_files[j] = <<paths[k], "">>}) = 1

=============================================================================
